---- MODULE Spec2Model ----
(***************************************************************************)
(* Estacionamiento IPS (streamlit_app.py): the registration form that      *)
(* expands one submission into day x hour rows, the Google Sheets client   *)
(* (_ensure_headers, append_form_rows, load_data) and the st.cache_data    *)
(* slot of load_data.                                                      *)
(*                                                                         *)
(* Python lists are sequences; a Python index i is the TLA+ index Py(i).   *)
(* Cells of a row built in memory are tagged with their Python type        *)
(* (PyStr, PyInt); cells of the worksheet are the strings that             *)
(* get_all_values returns.                                                 *)
(*                                                                         *)
(* Every gspread call is one step that either takes effect or raises.      *)
(* _open_or_create_sheet leaves the rows alone (a sheet it creates is an   *)
(* empty one).  The text fields are taken as the widgets deliver them,     *)
(* after _to_title and _norm_placa; of the strings of the model only the   *)
(* decimal texts of 0..24 and "8.5" read as numbers.  load_data's body up  *)
(* to its return is one step with the read that feeds it.  The charts and  *)
(* filters of tab_tablero are not part of the model.                       *)
(***************************************************************************)
EXTENDS Integers, Sequences, FiniteSets, TLC

VARIABLES
    store,    \* worksheet "formularios": its non-blank rows, top to bottom
    cache,    \* the st.cache_data slot of load_data(): NoEntry or a frame
    pc,       \* per session: where its script run stands
    op,       \* per session: the function that is running _ensure_headers
    form,     \* per session: the widget values of its last submission
    rows,     \* per session: the list handed to append_form_rows
    merged,   \* per session: local `merged` of _ensure_headers
    ret,      \* per session: (ok, msg) of its last append_form_rows call
    out,      \* per session: what its last load_data() call produced
    ui,       \* per session: the message the last run showed
    nrid,     \* number of uuid4 values drawn so far
    appended, \* history: the batches whose append_form_rows returned (True, "OK")
    seen,     \* history, per session: Len(appended) when its load_data call began
    store0,   \* history: the worksheet before the first call
    after1,   \* history: the worksheet when the first _ensure_headers call returned
    calls,    \* number of direct _ensure_headers calls completed
    left      \* script runs that may still begin

vars == <<store, cache, pc, op, form, rows, merged, ret, out, ui, nrid,
          appended, seen, store0, after1, calls, left>>

----------------------------------------------------------------------------
(* Bounds of the model *)

\* days offered to the form, and the longest day selection
MaxDias == 2
\* hours offered to the form, and the longest hour selection
MaxHoras == 2
\* submissions (uuid4 draws) in one behaviour
MaxSubmits == 2

----------------------------------------------------------------------------
(* Constants of the program *)

DIAS_ORD == <<"Lunes", "Martes", "Miércoles", "Jueves", "Viernes", "Sábado", "Domingo">>

HORAS_ORD == [i \in 1..25 |-> i - 1]

HEADERS == <<"timestamp", "registro_id",
             "nombre", "ci", "telefono", "email",
             "vehiculo_marca_modelo", "color", "placa",
             "unidad", "box", "lugar",
             "dia_semana", "hora",
             "observacion", "origen_app">>

Sessions == {1, 2}

\* Python index -> TLA+ index
Py(i) == i + 1

Range(f) == {f[i] : i \in DOMAIN f}

\* position of the first cell named c in a header (0 when absent), as list.index
IndexOf(hdr, c) ==
    IF c \in Range(hdr) THEN CHOOSE i \in 1..Len(hdr) : hdr[i] = c /\ \A j \in 1..(i - 1) : hdr[j] # c
    ELSE 0

----------------------------------------------------------------------------
(* Cells *)

PyStr(s) == <<"str", s>>
PyInt(n) == <<"int", n>>

\* decimal text of the integers the form can produce
Decimal == <<"0", "1", "2", "3", "4", "5", "6", "7", "8", "9", "10", "11", "12",
             "13", "14", "15", "16", "17", "18", "19", "20", "21", "22", "23", "24">>

\* what get_all_values returns for a cell written with USER_ENTERED:
\* a str as typed, an int as its decimal text
Fmt(c) == IF c[1] = "int" THEN Decimal[c[2] + 1] ELSE c[2]

FmtRow(r) == [i \in 1..Len(r) |-> Fmt(r[i])]

----------------------------------------------------------------------------
(* tab_registro: the submit handler *)

\* the values uuid.uuid4() returns, in the order drawn: all distinct
UUID == <<"rid-1", "rid-2", "rid-3", "rid-4", "rid-5", "rid-6">>

\* the validation of line 189: every required value is truthy
Valid(f) ==
    /\ f.nombre # "" /\ f.ci # "" /\ f.placa # "" /\ f.unidad # ""
    /\ f.dias_sel # <<>> /\ f.horas_sel # <<>>

Base(f, ts, rid) ==
    << PyStr(ts), PyStr(rid),
       PyStr(f.nombre), PyStr(f.ci), PyStr(f.telefono), PyStr(f.email),
       PyStr(f.vehiculo), PyStr(f.color), PyStr(f.placa),
       PyStr(f.unidad), PyStr(f.box), PyStr(f.lugar),
       PyStr(""), PyStr(""),
       PyStr(f.observ), PyStr("streamlit") >>

\* row = base.copy(); row[13] = d; row[14] = int(h)
RowFor(base, d, h) == [base EXCEPT ![Py(13)] = PyStr(d), ![Py(14)] = PyInt(h)]

RECURSIVE InnerLoop(_, _, _, _), OuterLoop(_, _, _, _), HoursMajor(_, _, _, _)

\* for h in horas_sel: rows.append(row)
InnerLoop(acc, base, d, H) ==
    IF H = <<>> THEN acc
    ELSE InnerLoop(Append(acc, RowFor(base, d, Head(H))), base, d, Tail(H))

\* for d in dias_sel: ...
OuterLoop(acc, base, D, H) ==
    IF D = <<>> THEN acc
    ELSE OuterLoop(InnerLoop(acc, base, Head(D), H), base, Tail(D), H)

\* the two loops exchanged: for h in horas_sel: for d in dias_sel
HoursMajor(acc, base, D, H) ==
    IF H = <<>> THEN acc
    ELSE HoursMajor(acc \o [i \in 1..Len(D) |-> RowFor(base, D[i], Head(H))], base, D, Tail(H))

BuildRowsHoursMajor(base, D, H) == HoursMajor(<<>>, base, D, H)

\* rows = []; for d in dias_sel: for h in horas_sel: rows.append(row)
BuildRows(base, D, H) == OuterLoop(<<>>, base, D, H)

----------------------------------------------------------------------------
(* The worksheet (gspread) *)

Max(a, b) == IF a >= b THEN a ELSE b

RECURSIVE Width(_)
\* number of columns of the widest row
Width(st) == IF st = <<>> THEN 0 ELSE Max(Len(Head(st)), Width(Tail(st)))

Pad(r, w) == [i \in 1..w |-> IF i <= Len(r) THEN r[i] ELSE ""]

\* ws.get_all_values(): every non-blank row, each padded with "" to the widest
ws_get_all_values(st) == [i \in 1..Len(st) |-> Pad(st[i], Width(st))]

\* ws.append_row(values): one row after the last
ws_append_row(st, values) == Append(st, values)

\* ws.delete_rows(1): the first row goes, the others move up
ws_delete_rows(st) == IF st = <<>> THEN st ELSE Tail(st)

\* ws.insert_row(values, 1): a new first row, the others move down
ws_insert_row(st, values) == <<values>> \o st

\* the rows written in reverse list order
ws_append_rows_reversed(st, rs) ==
    st \o [i \in 1..Len(rs) |-> FmtRow(rs[Len(rs) + 1 - i])]

\* ws.append_rows(rows): the rows after the last, in list order
ws_append_rows(st, rs) == st \o [i \in 1..Len(rs) |-> FmtRow(rs[i])]

RECURSIVE FromKeys(_, _)
\* list(dict.fromkeys(xs)): the first occurrence of each value, in order
FromKeys(acc, xs) ==
    IF xs = <<>> THEN acc
    ELSE FromKeys(IF Head(xs) \in Range(acc) THEN acc ELSE Append(acc, Head(xs)), Tail(xs))

\* the concatenation without dict.fromkeys: repeated names are kept
MergedNoFromKeys(current_headers, headers) == current_headers \o headers

\* merged = list(dict.fromkeys(current_headers + headers))
Merged(current_headers, headers) == FromKeys(<<>>, current_headers \o headers)

----------------------------------------------------------------------------
(* Frames (pandas) *)

Frame(cols, rs) == [cols |-> cols, rows |-> rs]

\* pd.DataFrame(columns=HEADERS)
EmptyFrame == Frame(HEADERS, <<>>)

\* pd.DataFrame(values[1:], columns=values[0])
FrameOf(values) == Frame(Head(values), Tail(values))

\* texts that pd.to_numeric reads as a number that is no integer
FracTexts == {"8.5"}

\* pd.to_numeric(errors="coerce") on one cell: an integer, another number, or NaN
NumClass(s) ==
    IF s \in Range(Decimal) THEN "int" ELSE IF s \in FracTexts THEN "frac" ELSE "nan"

NA == "<NA>"

\* .astype("Int64") raises on a number that is no integer
NormRaises(df) ==
    LET hi == IndexOf(df.cols, "hora") IN
    hi # 0 /\ \E i \in 1..Len(df.rows) : NumClass(df.rows[i][hi]) = "frac"

\* lines 148-151: hora to Int64 (NaN where not numeric), dia_semana to the
\* categorical of DIAS_ORD (NaN where not one of its names)
Normalizar(df) ==
    LET hi == IndexOf(df.cols, "hora")
        di == IndexOf(df.cols, "dia_semana")
        cell(r, j) ==
            IF j = hi THEN (IF NumClass(r[j]) = "int" THEN r[j] ELSE NA)
            ELSE IF j = di THEN (IF r[j] \in Range(DIAS_ORD) THEN r[j] ELSE NA)
            ELSE r[j]
    IN Frame(df.cols, [i \in 1..Len(df.rows) |-> [j \in 1..Len(df.rows[i]) |-> cell(df.rows[i], j)]])

----------------------------------------------------------------------------
(* Values of the locals and of the cache slot *)

EmptyForm ==
    [nombre |-> "", ci |-> "", telefono |-> "", email |-> "", vehiculo |-> "",
     color |-> "", placa |-> "", unidad |-> "", box |-> "", lugar |-> "",
     observ |-> "", dias_sel |-> <<>>, horas_sel |-> <<>>]

\* src: where the frame came from ("none": no entry / no call yet);
\* asof: Len(appended) when its data was read; hit: served by the cache
NoEntry == [src |-> "none", df |-> EmptyFrame, asof |-> 0, hit |-> FALSE]

NoRet == [called |-> FALSE, ok |-> FALSE, msg |-> ""]

\* the positions of _ensure_headers
EHpcs == {"eh_read", "eh_append", "eh_delete", "eh_insert"}

----------------------------------------------------------------------------
(* tab_registro, lines 187-216 *)

\* the form is submitted and passes the validation: the rows are built and
\* handed to append_form_rows
SubmitValid(s, F, T) ==
    /\ pc[s] = "idle"
    /\ left > 0
    /\ left' = left - 1
    /\ nrid < MaxSubmits
    /\ \E f \in F, ts \in T :
        /\ Valid(f)
        /\ form' = [form EXCEPT ![s] = f]
        /\ rows' = [rows EXCEPT ![s] = BuildRows(Base(f, ts, UUID[nrid + 1]), f.dias_sel, f.horas_sel)]
    /\ nrid' = nrid + 1
    /\ pc' = [pc EXCEPT ![s] = "a_creds"]
    /\ ui' = [ui EXCEPT ![s] = ""]
    /\ ret' = [ret EXCEPT ![s] = NoRet]
    /\ out' = [out EXCEPT ![s] = NoEntry]
    /\ UNCHANGED <<store, cache, op, merged, appended, seen, store0, after1, calls>>

\* the form is submitted and fails the validation: st.error, no store call
SubmitInvalid(s, F) ==
    /\ pc[s] = "idle"
    /\ left > 0
    /\ left' = left - 1
    /\ \E f \in F :
        /\ ~Valid(f)
        /\ form' = [form EXCEPT ![s] = f]
    /\ ui' = [ui EXCEPT ![s] = "required"]
    /\ pc' = [pc EXCEPT ![s] = "l_call"]
    /\ ret' = [ret EXCEPT ![s] = NoRet]
    /\ out' = [out EXCEPT ![s] = NoEntry]
    /\ UNCHANGED <<store, cache, op, rows, merged, nrid, appended, seen, store0, after1, calls>>

\* a rerun without a submission: only tab_tablero acts
View(s) ==
    /\ pc[s] = "idle"
    /\ left > 0
    /\ left' = left - 1
    /\ pc' = [pc EXCEPT ![s] = "l_call"]
    /\ ui' = [ui EXCEPT ![s] = ""]
    /\ form' = [form EXCEPT ![s] = EmptyForm]
    /\ ret' = [ret EXCEPT ![s] = NoRet]
    /\ out' = [out EXCEPT ![s] = NoEntry]
    /\ UNCHANGED <<store, cache, op, rows, merged, nrid, appended, seen, store0, after1, calls>>

----------------------------------------------------------------------------
(* _ensure_headers, lines 103-113 *)

\* where _ensure_headers returns to
AfterEnsure(s) ==
    IF op[s] = "append" THEN "a_append" ELSE IF op[s] = "load" THEN "l_read" ELSE "idle"

\* the return of _ensure_headers, given the worksheet it leaves
EnsureReturns(s, st) ==
    /\ pc' = [pc EXCEPT ![s] = AfterEnsure(s)]
    /\ calls' = IF op[s] = "ensure" THEN calls + 1 ELSE calls
    /\ after1' = IF op[s] = "ensure" /\ calls = 0 THEN st ELSE after1

\* vals = ws.get_all_values() and the two tests on it
EH_Read(s) ==
    /\ pc[s] = "eh_read"
    /\ LET vals == ws_get_all_values(store) IN
        IF vals = <<>> THEN
            /\ pc' = [pc EXCEPT ![s] = "eh_append"]
            /\ UNCHANGED <<merged, calls, after1>>
        ELSE IF vals[Py(0)] # HEADERS THEN
            /\ merged' = [merged EXCEPT ![s] = Merged(vals[Py(0)], HEADERS)]
            /\ pc' = [pc EXCEPT ![s] = "eh_delete"]
            /\ UNCHANGED <<calls, after1>>
        ELSE
            /\ EnsureReturns(s, store)
            /\ UNCHANGED merged
    /\ UNCHANGED <<store, cache, op, form, rows, ret, out, ui, nrid, appended, seen, store0, left>>

\* ws.append_row(headers)
EH_AppendRow(s) ==
    /\ pc[s] = "eh_append"
    /\ store' = ws_append_row(store, HEADERS)
    /\ EnsureReturns(s, store')
    /\ UNCHANGED <<cache, op, form, rows, merged, ret, out, ui, nrid, appended, seen, store0, left>>

\* ws.delete_rows(1)
EH_DeleteRows(s) ==
    /\ pc[s] = "eh_delete"
    /\ store' = ws_delete_rows(store)
    /\ pc' = [pc EXCEPT ![s] = "eh_insert"]
    /\ UNCHANGED <<cache, op, form, rows, merged, ret, out, ui, nrid, appended, seen,
                   store0, after1, calls, left>>

\* ws.insert_row(merged, 1)
EH_InsertRow(s) ==
    /\ pc[s] = "eh_insert"
    /\ store' = ws_insert_row(store, merged[s])
    /\ merged' = [merged EXCEPT ![s] = <<>>]
    /\ EnsureReturns(s, store')
    /\ UNCHANGED <<cache, op, form, rows, ret, out, ui, nrid, appended, seen, store0, left>>

\* _ensure_headers called on its own, twice at most
CallEnsure(s) ==
    /\ pc[s] = "idle"
    /\ calls < 2
    /\ op' = [op EXCEPT ![s] = "ensure"]
    /\ pc' = [pc EXCEPT ![s] = "eh_read"]
    /\ UNCHANGED <<store, cache, form, rows, merged, ret, out, ui, nrid, appended, seen,
                   store0, after1, calls, left>>

----------------------------------------------------------------------------
(* append_form_rows, lines 116-125, and the handler's use of its result *)

\* client = _get_gspread_client()
A_Creds(s) ==
    /\ pc[s] = "a_creds"
    /\ pc' = [pc EXCEPT ![s] = "a_open"]
    /\ UNCHANGED <<store, cache, op, form, rows, merged, ret, out, ui, nrid, appended, seen,
                   store0, after1, calls, left>>

\* _, ws = _open_or_create_sheet(...); _ensure_headers is entered
A_Open(s) ==
    /\ pc[s] = "a_open"
    /\ op' = [op EXCEPT ![s] = "append"]
    /\ pc' = [pc EXCEPT ![s] = "eh_read"]
    /\ UNCHANGED <<store, cache, form, rows, merged, ret, out, ui, nrid, appended, seen,
                   store0, after1, calls, left>>

\* ws.append_rows(rows); return True, "OK"
A_AppendRows(s) ==
    /\ pc[s] = "a_append"
    /\ store' = ws_append_rows(store, rows[s])
    /\ ret' = [ret EXCEPT ![s] = [called |-> TRUE, ok |-> TRUE, msg |-> "OK"]]
    /\ appended' = Append(appended, [i \in 1..Len(rows[s]) |-> FmtRow(rows[s][i])])
    /\ pc' = [pc EXCEPT ![s] = "h_clear"]
    /\ UNCHANGED <<cache, op, form, rows, merged, out, ui, nrid, seen, store0, after1, calls, left>>

\* a call of append_form_rows raises: except Exception as e: return False, repr(e);
\* the handler shows st.error
A_Fail(s) ==
    /\ \/ pc[s] \in {"a_creds", "a_open", "a_append"}
       \/ pc[s] \in EHpcs /\ op[s] = "append"
    /\ ret' = [ret EXCEPT ![s] = [called |-> TRUE, ok |-> FALSE, msg |-> pc[s]]]
    /\ ui' = [ui EXCEPT ![s] = "save_error"]
    /\ merged' = [merged EXCEPT ![s] = <<>>]
    /\ rows' = [rows EXCEPT ![s] = <<>>]
    /\ pc' = [pc EXCEPT ![s] = "l_call"]
    /\ UNCHANGED <<store, cache, op, form, out, nrid, appended, seen, store0, after1, calls, left>>

\* if ok: st.success(...); st.cache_data.clear()
H_Clear(s) ==
    /\ pc[s] = "h_clear"
    /\ cache' = NoEntry
    /\ ui' = [ui EXCEPT ![s] = "saved"]
    /\ rows' = [rows EXCEPT ![s] = <<>>]
    /\ pc' = [pc EXCEPT ![s] = "l_call"]
    /\ UNCHANGED <<store, op, form, merged, ret, out, nrid, appended, seen, store0, after1, calls, left>>

----------------------------------------------------------------------------
(* load_data, lines 128-152, under @st.cache_data(ttl=60) *)

\* the secondary source (GITHUB_CSV_RAW_URL), when it can be read: a published
\* export with the canonical columns
CsvFrames ==
    { Frame(HEADERS, << <<"2024-11-30T07:00:00", "rid-csv", "Eva Paz", "7654321-0", "", "",
                         "", "", "XYZ987", "Cirugía", "", "", "Martes", "7", "", "streamlit">> >>) }

\* the end of load_data on the frame df read from src: the normalisations of
\* lines 148-151, which are outside the try; the returned frame is cached, an
\* exception is not
Finish(s, src, df) ==
    IF NormRaises(df) THEN
        /\ out' = [out EXCEPT ![s] = [src |-> "raised", df |-> EmptyFrame,
                                      asof |-> Len(appended), hit |-> FALSE]]
        /\ ui' = [ui EXCEPT ![s] = "exception"]
        /\ UNCHANGED cache
    ELSE
        /\ out' = [out EXCEPT ![s] = [src |-> src, df |-> Normalizar(df),
                                      asof |-> Len(appended), hit |-> FALSE]]
        /\ cache' = [src |-> src, df |-> Normalizar(df), asof |-> Len(appended), hit |-> FALSE]
        /\ UNCHANGED ui

\* load_data() is called and the cache holds a fresh entry: it is returned
L_Hit(s) ==
    /\ pc[s] = "l_call"
    /\ cache.src # "none"
    /\ seen' = [seen EXCEPT ![s] = Len(appended)]
    /\ out' = [out EXCEPT ![s] = [cache EXCEPT !.hit = TRUE]]
    /\ pc' = [pc EXCEPT ![s] = "idle"]
    /\ UNCHANGED <<store, cache, op, form, rows, merged, ret, ui, nrid, appended,
                   store0, after1, calls, left>>

\* load_data() is called and the cache holds no entry: the body runs
L_Miss(s) ==
    /\ pc[s] = "l_call"
    /\ cache.src = "none"
    /\ seen' = [seen EXCEPT ![s] = Len(appended)]
    /\ pc' = [pc EXCEPT ![s] = "l_creds"]
    /\ UNCHANGED <<store, cache, op, form, rows, merged, ret, out, ui, nrid, appended,
                   store0, after1, calls, left>>

\* client = _get_gspread_client()
L_Creds(s) ==
    /\ pc[s] = "l_creds"
    /\ pc' = [pc EXCEPT ![s] = "l_open"]
    /\ UNCHANGED <<store, cache, op, form, rows, merged, ret, out, ui, nrid, appended, seen,
                   store0, after1, calls, left>>

\* _, ws = _open_or_create_sheet(...); _ensure_headers is entered
L_Open(s) ==
    /\ pc[s] = "l_open"
    /\ op' = [op EXCEPT ![s] = "load"]
    /\ pc' = [pc EXCEPT ![s] = "eh_read"]
    /\ UNCHANGED <<store, cache, form, rows, merged, ret, out, ui, nrid, appended, seen,
                   store0, after1, calls, left>>

\* values = ws.get_all_values(); the early return on an empty sheet, or the frame
L_Read(s) ==
    /\ pc[s] = "l_read"
    /\ LET values == ws_get_all_values(store) IN
        IF values = <<>> THEN
            /\ out' = [out EXCEPT ![s] = [src |-> "primary", df |-> EmptyFrame,
                                          asof |-> Len(appended), hit |-> FALSE]]
            /\ cache' = [src |-> "primary", df |-> EmptyFrame, asof |-> Len(appended), hit |-> FALSE]
            /\ UNCHANGED ui
        ELSE Finish(s, "primary", FrameOf(values))
    /\ pc' = [pc EXCEPT ![s] = "idle"]
    /\ UNCHANGED <<store, op, form, rows, merged, ret, nrid, appended, seen, store0, after1, calls, left>>

\* a call inside the try of load_data raises: except Exception, the CSV is tried
L_Fail(s) ==
    /\ \/ pc[s] \in {"l_creds", "l_open", "l_read"}
       \/ pc[s] \in EHpcs /\ op[s] = "load"
    /\ merged' = [merged EXCEPT ![s] = <<>>]
    /\ pc' = [pc EXCEPT ![s] = "l_csv"]
    /\ UNCHANGED <<store, cache, op, form, rows, ret, out, ui, nrid, appended, seen,
                   store0, after1, calls, left>>

\* df = pd.read_csv(GITHUB_CSV_RAW_URL)
L_Csv(s) ==
    /\ pc[s] = "l_csv"
    /\ \E df \in CsvFrames : Finish(s, "csv", df)
    /\ pc' = [pc EXCEPT ![s] = "idle"]
    /\ UNCHANGED <<store, op, form, rows, merged, ret, nrid, appended, seen, store0, after1, calls, left>>

\* pd.read_csv raises: df = pd.DataFrame(columns=HEADERS)
L_CsvFail(s) ==
    /\ pc[s] = "l_csv"
    /\ Finish(s, "empty", EmptyFrame)
    /\ pc' = [pc EXCEPT ![s] = "idle"]
    /\ UNCHANGED <<store, op, form, rows, merged, ret, nrid, appended, seen, store0, after1, calls, left>>

\* ttl=60: the entry is older than 60 s and is dropped
Expire ==
    /\ cache.src # "none"
    /\ cache' = NoEntry
    /\ UNCHANGED <<store, pc, op, form, rows, merged, ret, out, ui, nrid, appended, seen,
                   store0, after1, calls, left>>

----------------------------------------------------------------------------
(* Inputs *)

RECURSIVE Perms(_, _)
\* the lists without repeats of length n over S: what st.multiselect returns
Perms(S, n) ==
    IF n = 0 THEN {<<>>}
    ELSE {Append(p, x) : p \in Perms(S, n - 1), x \in S} \ {q \in {Append(p, x) : p \in Perms(S, n - 1), x \in S} : \E i \in 1..(n - 1) : q[i] = q[n]}

Selections(S, n) == UNION {Perms(S, k) : k \in 0..n}

\* the first MaxDias days and the last MaxHoras hours of the two option lists
DiasPool == {DIAS_ORD[i] : i \in 1..MaxDias}
HorasPool == {HORAS_ORD[Len(HORAS_ORD) + 1 - i] : i \in 1..MaxHoras}

FilledForm ==
    [EmptyForm EXCEPT !.nombre = "Ana Diaz", !.ci = "1234567-8", !.placa = "ABC123",
                      !.unidad = "Anestesia", !.observ = "nota"]

\* the submissions of the form specification
FormsWide ==
    { [FilledForm EXCEPT !.nombre = n, !.observ = o, !.dias_sel = D, !.horas_sel = H] :
        n \in {"", "Ana Diaz"}, o \in {"", "nota"},
        D \in Selections(DiasPool, MaxDias), H \in Selections(HorasPool, MaxHoras) }

\* the submissions of the session specifications: one day and two hours, or no name
FormsNarrow ==
    { [FilledForm EXCEPT !.dias_sel = <<"Lunes">>, !.horas_sel = <<9, 8>>],
      [FilledForm EXCEPT !.nombre = "", !.dias_sel = <<"Lunes">>, !.horas_sel = <<9, 8>>] }

\* datetime.now().isoformat(timespec="seconds")
TsWide == {"2025-03-03T08:00:00", "2025-03-03T08:00:01"}
TsNarrow == {"2025-03-03T08:00:00"}

\* a row typed into the sheet by hand, with a half hour
HandRow == <<"2024-11-30T07:00:00", "rid-0", "Eva Paz", "7654321-0", "", "",
             "", "", "XYZ987", "Cirugía", "", "", "Martes", "8.5", "", "manual">>

\* a sheet that was started by hand with other columns
LegacyHeader == <<"placa", "nombre">>
LegacyRow == <<"XYZ987", "Eva Paz">>

\* the worksheets the session specifications start from
InitStores == { <<>>, <<HEADERS>>, <<HEADERS, HandRow>>, <<LegacyHeader, LegacyRow>> }

----------------------------------------------------------------------------------------------------------------------------------------
(* Specifications *)

\* script runs in a behaviour of the one-session specification
MaxRuns == 4
\* script runs in a behaviour of the two-session specification
MaxRunsRace == 3
\* columns of a header the _ensure_headers specification starts from
MaxHdr == 3

Start(st, n, r) ==
    /\ store = st
    /\ cache = NoEntry
    /\ pc = [s \in Sessions |-> "idle"]
    /\ op = [s \in Sessions |-> "none"]
    /\ form = [s \in Sessions |-> EmptyForm]
    /\ rows = [s \in Sessions |-> <<>>]
    /\ merged = [s \in Sessions |-> <<>>]
    /\ ret = [s \in Sessions |-> NoRet]
    /\ out = [s \in Sessions |-> NoEntry]
    /\ ui = [s \in Sessions |-> ""]
    /\ nrid = n
    /\ appended = <<>>
    /\ seen = [s \in Sessions |-> 0]
    /\ store0 = st
    /\ after1 = st
    /\ calls = 0
    /\ left = r

\* a script run of session s, every store call succeeding
Run(s) ==
    \/ SubmitValid(s, FormsNarrow, TsNarrow)
    \/ SubmitInvalid(s, FormsNarrow)
    \/ View(s)
    \/ A_Creds(s) \/ A_Open(s)
    \/ EH_Read(s) \/ EH_AppendRow(s) \/ EH_DeleteRows(s) \/ EH_InsertRow(s)
    \/ A_AppendRows(s) \/ H_Clear(s)
    \/ L_Hit(s) \/ L_Miss(s) \/ L_Creds(s) \/ L_Open(s) \/ L_Read(s)

\* a store call, or the read of the CSV, fails
Fails(s) == A_Fail(s) \/ L_Fail(s) \/ L_Csv(s) \/ L_CsvFail(s)

\* one session; every store call may fail
Init == \E st \in InitStores : Start(st, 0, MaxRuns)
Next == Run(1) \/ Fails(1) \/ Expire
Spec == Init /\ [][Next]_vars

\* two sessions; every store call succeeds
RaceStores == { <<>>, <<LegacyHeader, LegacyRow>> }
InitRace == \E st \in RaceStores : Start(st, 0, MaxRunsRace)
NextRace == (\E s \in Sessions : Run(s)) \/ Expire
SpecRace == InitRace /\ [][NextRace]_vars

\* the submit handler alone, after any number of earlier submissions
InitForm == \E n \in 0..(MaxSubmits - 1) : Start(<<HEADERS>>, n, 1)
NextForm == SubmitValid(1, FormsWide, TsWide) \/ SubmitInvalid(1, FormsWide)
SpecForm == InitForm /\ [][NextForm]_vars

\* names of the columns of a sheet made by hand
NamePool == {"", "nombre", "hora", "legado"}

RECURSIVE Seqs(_, _)
Seqs(S, n) == IF n = 0 THEN {<<>>} ELSE {Append(q, x) : q \in Seqs(S, n - 1), x \in S}

\* a header row as get_all_values can return it next to a data row as wide:
\* any names, repeated and blank ones too, not all blank
HdrPool ==
    {HEADERS} \cup {h \in UNION {Seqs(NamePool, k) : k \in 1..MaxHdr} : \E i \in 1..Len(h) : h[i] # ""}

DataRowFor(h) == [i \in 1..Len(h) |-> "x"]

\* _ensure_headers alone, twice, on an empty sheet or under any header,
\* with one data row or none (none only under a header that ends in a name)
EnsureStores ==
    {<<>>} \cup {<<h, DataRowFor(h)>> : h \in HdrPool}
           \cup {<<h>> : h \in {g \in HdrPool : g[Len(g)] # ""}}
InitEnsure == \E st \in EnsureStores : Start(st, 0, 0)
NextEnsure ==
    \/ CallEnsure(1)
    \/ EH_Read(1) \/ EH_AppendRow(1) \/ EH_DeleteRows(1) \/ EH_InsertRow(1)
SpecEnsure == InitEnsure /\ [][NextEnsure]_vars

----------------------------------------------------------------------------
(* Claims about the submit handler (SpecForm) *)

\* the day and the hour the loop of lines 204-209 wrote into a row
SlotOf(row) == <<row[Py(13)], row[Py(14)]>>

\* C1: the list handed to append_form_rows has |D|*|H| rows, every row carries
\* the uuid drawn for this submission (a value no earlier submission drew) and
\* one timestamp, and the k-th row carries the k-th slot of the days-major
\* enumeration of D x H, days and hours in the order selected.
C1_Expansion ==
    \A s \in Sessions :
        pc[s] = "a_creds" =>
            LET D == form[s].dias_sel
                H == form[s].horas_sel
                R == rows[s]
            IN  /\ Len(R) = Len(D) * Len(H)
                /\ \A k \in 1..Len(R) :
                    /\ R[k][Py(1)] = PyStr(UUID[nrid])
                    /\ R[k][Py(0)] = R[1][Py(0)]
                    /\ SlotOf(R[k]) = << PyStr(D[((k - 1) \div Len(H)) + 1]),
                                         PyInt(H[((k - 1) % Len(H)) + 1]) >>
                /\ \A j \in 1..(nrid - 1) : UUID[j] # UUID[nrid]
                /\ \E ts \in TsWide : R[1][Py(0)] = PyStr(ts)

\* C1 witness: a second submission with two days and two hours, neither in
\* the order of the option lists, has been expanded
C1_Witness ==
    /\ pc[1] = "a_creds"
    /\ nrid = 2
    /\ form[1].dias_sel = <<"Martes", "Lunes">>
    /\ form[1].horas_sel = <<24, 23>>
    /\ Len(rows[1]) = 4

\* C2: every built row is aligned with HEADERS: the cell under dia_semana is
\* the selected day, the cell under hora is the selected hour as an int in
\* 0..24, and every other cell is the value submitted for its column.
C2_AlignedWithHeaders ==
    \A s \in Sessions :
        pc[s] = "a_creds" =>
            \A k \in 1..Len(rows[s]) :
                LET r == rows[s][k]
                    f == form[s]
                    dia == IndexOf(HEADERS, "dia_semana")
                    hora == IndexOf(HEADERS, "hora")
                IN  /\ r[dia] \in {PyStr(d) : d \in Range(f.dias_sel)}
                    /\ r[dia] \in {PyStr(d) : d \in Range(DIAS_ORD)}
                    /\ r[hora] \in {PyInt(h) : h \in Range(f.horas_sel)}
                    /\ r[hora] \in {PyInt(h) : h \in 0..24}
                    /\ r[IndexOf(HEADERS, "observacion")] = PyStr(f.observ)
                    /\ r[IndexOf(HEADERS, "origen_app")] = PyStr("streamlit")
                    /\ \A c \in 1..Len(HEADERS) :
                        c \notin {dia, hora} => r[c] = Base(f, r[Py(0)][2], r[Py(1)][2])[c]

----------------------------------------------------------------------------
(* Claims about _ensure_headers alone (SpecEnsure) *)

\* the canonical columns a header lacks, in canonical order
Missing(hdr) == SelectSeq(HEADERS, LAMBDA c : c \notin Range(hdr))

\* C4: under any header, after _ensure_headers the header is the old header,
\* every column where it was, followed by the canonical columns it lacked.
C4_ColumnsKept ==
    (calls >= 1 /\ store0 # <<>>) =>
        LET old == ws_get_all_values(store0)[1]
            new == ws_get_all_values(after1)[1]
        IN  new = old \o Missing(old)

\* C8: a second _ensure_headers leaves the sheet as the first left it; on an
\* empty sheet the first writes the canonical header and nothing changes later.
C8_Idempotent ==
    /\ calls = 2 => store = after1
    /\ (calls >= 1 /\ store0 = <<>>) => (after1 = <<HEADERS>> /\ store = <<HEADERS>>)

\* C8 witness: both calls have returned on a sheet whose header lacked
\* canonical columns and that holds a data row
C8_Witness ==
    /\ calls = 2
    /\ store0 = << <<"hora", "legado">>, <<"x", "x">> >>
    /\ store # store0
    /\ store[2] = <<"x", "x">>

----------------------------------------------------------------------------
(* Claims about one session whose store calls may fail (Spec) *)

\* the data rows a sheet holds before any call, and the rows of the batches
\* whose append succeeded
Records ==
    (IF store0 = <<>> THEN {} ELSE Range(Tail(store0)))
        \cup UNION {Range(appended[i]) : i \in 1..Len(appended)}

\* C5: a record, once a data row of the sheet, stays in it unchanged, also
\* when a call fails between two store calls.
C5_RecordsKept == \A r \in Records : r \in Range(store)

\* C6: load_data never raises; with the primary read it returns the sheet's
\* data rows under the sheet's header; with the secondary it returns the CSV's
\* rows; with neither an empty frame with the columns HEADERS.
C6_LoadData ==
    \A s \in Sessions :
        /\ out[s].src # "raised"
        /\ out[s].src = "empty" => out[s].df = EmptyFrame
        /\ out[s].src = "csv" => \E c \in CsvFrames : out[s].df = Normalizar(c)
        /\ (out[s].src = "primary" /\ ~out[s].hit /\ pc[s] = "idle") =>
                out[s].df = Normalizar(FrameOf(ws_get_all_values(store)))

\* C7: append_form_rows returns (True, "OK") only from the append step, having
\* added the rows after the last row in list order; when a step fails it
\* returns (False, text) and no row of the list is in the sheet.
C7_AppendResult ==
    [][ \A s \in Sessions :
            (ret'[s] # ret[s] /\ ret'[s].called) =>
                IF ret'[s].ok
                THEN /\ pc[s] = "a_append"
                     /\ ret'[s].msg = "OK"
                     /\ store' = store \o [i \in 1..Len(rows[s]) |-> FmtRow(rows[s][i])]
                ELSE /\ ret'[s].msg # "OK"
                     /\ \A i \in 1..Len(rows[s]) : FmtRow(rows[s][i]) \notin Range(store')
      ]_vars

\* C7 witness: the append of two rows has just returned (True, "OK") on a
\* sheet whose header had to be merged first
C7_Witness ==
    /\ pc[1] = "h_clear"
    /\ ret[1].ok
    /\ store0 = <<LegacyHeader, LegacyRow>>
    /\ Len(rows[1]) = 2
    /\ Len(store) = 4

\* C9: when rows are appended, the k-th canonical column is the k-th cell of
\* the header, so that each cell of an appended row is under its own name.
C9_HeaderAligned ==
    \A s \in Sessions :
        pc[s] = "h_clear" =>
            \A k \in 1..Len(HEADERS) : IndexOf(ws_get_all_values(store)[1], HEADERS[k]) = k

----------------------------------------------------------------------------
(* Claims about two sessions (SpecRace) *)

\* a row that carries the canonical column names
HeaderLike(r) == Range(HEADERS) \subseteq Range(r)

Count(st, r) == Cardinality({i \in 1..Len(st) : st[i] = r})

\* C3: a load_data call that begins after an append returned success is not
\* served data read before that append: the cache was cleared in between.
C3_CacheCleared ==
    \A s \in Sessions :
        (pc[s] = "idle" /\ out[s].src \notin {"none", "raised"}) => out[s].asof >= seen[s]

\* C10: when both sessions are done, the sheet has one header row, the first,
\* and every record is in it exactly once.
C10_OneHeader ==
    ((\A s \in Sessions : pc[s] = "idle") /\ left < MaxRunsRace) =>
        /\ store # <<>>
        /\ HeaderLike(store[1])
        /\ \A i \in 2..Len(store) : ~HeaderLike(store[i])
        /\ \A r \in Records : Count(store, r) = 1

====
